---- MODULE Spec2Model ----
(***************************************************************************)
(* Payment allocation engine of bunny-teacher-online (backend/main.py,     *)
(* backend/financial_utils.py, backend/financial_models.py).               *)
(*                                                                         *)
(* The database tables are sets of rows.  Every request handler owns a     *)
(* SQLAlchemy session (database.py: autocommit=False, autoflush=False), so *)
(* a calculate_payments run is a transaction: its bulk DELETE and its      *)
(* pending INSERTs reach the committed tables at db.commit() only.         *)
(* Several server processes share the one database, so the statements of   *)
(* two runs interleave at statement granularity (READ COMMITTED).          *)
(*                                                                         *)
(* Python floats are modelled as exact rationals <<n, d>> in lowest terms. *)
(***************************************************************************)
EXTENDS Integers, Sequences, FiniteSets, TLC

\* ---------------------------------------------------------------- bounds
\* Total number of calculate_payments requests in one behaviour.
MaxRuns == 2
\* Total number of operations on the assignment table.
MaxOps == 3

\* Total number of input edits (revenue upserts, assignment updates).
MaxEdits == 1
MaxMatches == 2
MaxUpserts == 2
MaxParses == 1

\* ------------------------------------------------------------- rationals
RECURSIVE GCD(_, _)
GCD(a, b) == IF b = 0 THEN a ELSE GCD(b, a % b)

Abs(n) == IF n < 0 THEN 0 - n ELSE n

\* n / d in lowest terms, d > 0.
Rat(n, d) ==
    IF n = 0 THEN <<0, 1>>
    ELSE LET g == GCD(Abs(n), d) IN <<n \div g, d \div g>>

RInt(n) == <<n, 1>>
RZero == <<0, 1>>
ROne == <<1, 1>>
RMul(x, y) == Rat(x[1] * y[1], x[2] * y[2])
RAdd(x, y) == Rat(x[1] * y[2] + y[1] * x[2], x[2] * y[2])
RSub(x, y) == Rat(x[1] * y[2] - y[1] * x[2], x[2] * y[2])
RLe(x, y) == x[1] * y[2] <= y[1] * x[2]

\* ------------------------------------------------------- list utilities
\* Section revenue rows in ascending order of section_id.
RECURSIVE SortBySection(_)
SortBySection(S) ==
    IF S = {} THEN << >>
    ELSE LET m == CHOOSE x \in S : \A y \in S : x.section_id <= y.section_id
         IN <<m>> \o SortBySection(S \ {m})

\* Rows in ascending order of their primary key.
RECURSIVE SortById(_)
SortById(S) ==
    IF S = {} THEN << >>
    ELSE LET m == CHOOSE x \in S : \A y \in S : x.id <= y.id
         IN <<m>> \o SortById(S \ {m})

RECURSIVE SumSeq(_)
SumSeq(s) == IF s = << >> THEN 0 ELSE Head(s) + SumSeq(Tail(s))

RECURSIVE RSumSeq(_)
RSumSeq(s) == IF s = << >> THEN RZero ELSE RAdd(Head(s), RSumSeq(Tail(s)))

Range(s) == {s[i] : i \in DOMAIN s}

\* ------------------------------------------ financial_utils.py helpers
\* A plausible slip: without orders every section gets the default share 1.
calculate_section_order_percentages_FallbackOne(sections_data) ==
    LET total == SumSeq([i \in DOMAIN sections_data |-> sections_data[i].total_orders])
        ids == {sections_data[i].section_id : i \in DOMAIN sections_data}
        row(sid) == sections_data[CHOOSE i \in DOMAIN sections_data : sections_data[i].section_id = sid]
    IN IF total = 0 THEN [sid \in ids |-> ROne] ELSE [sid \in ids |-> Rat(row(sid).total_orders, total)]

\* A plausible slip: no equal split, without orders every share is 0.
calculate_section_order_percentages_NoFallback(sections_data) ==
    LET total == SumSeq([i \in DOMAIN sections_data |-> sections_data[i].total_orders])
        ids == {sections_data[i].section_id : i \in DOMAIN sections_data}
        row(sid) == sections_data[CHOOSE i \in DOMAIN sections_data : sections_data[i].section_id = sid]
    IN IF total = 0 THEN [sid \in ids |-> RZero] ELSE [sid \in ids |-> Rat(row(sid).total_orders, total)]

\* calculate_section_order_percentages(sections_data): section_id -> share
\* of the total orders; equal shares when the total is 0.
calculate_section_order_percentages(sections_data) ==
    LET total == SumSeq([i \in DOMAIN sections_data |-> sections_data[i].total_orders])
        n == Len(sections_data)
        ids == {sections_data[i].section_id : i \in DOMAIN sections_data}
        \* a dict comprehension: the last entry of a section id wins
        last(sid) == sections_data[CHOOSE i \in DOMAIN sections_data :
                        /\ sections_data[i].section_id = sid
                        /\ \A j \in DOMAIN sections_data :
                              sections_data[j].section_id = sid => j <= i]
    IN IF total = 0
       THEN [sid \in ids |-> IF n # 0 THEN Rat(1, n) ELSE RZero]
       ELSE [sid \in ids |-> Rat(last(sid).total_orders, total)]

\* ------------------------------------------------------ library names
\* A library name is a sequence of atoms: the marks "(", ")", "[", "]" and
\* "-", the blank " ", and words, which hold no mark and no blank.
None == "<None>"

\* str.upper() of the words of the model that are not in upper case.
UpperOf == ("old" :> "OLD") @@ ("Old" :> "OLD") @@ ("s1" :> "S1") @@ ("math" :> "MATH") @@ ("ar" :> "AR") @@ ("en" :> "EN") @@ ("Shady" :> "SHADY") @@ ("Intro" :> "INTRO") @@ ("hist" :> "HIST") @@ ("chem" :> "CHEM") @@ ("Teacher" :> "TEACHER") @@ ("Name" :> "NAME") @@ ("oldS1" :> "OLDS1")
Upper(w) == IF w \in DOMAIN UpperOf THEN UpperOf[w] ELSE w

\* The words of the model that match ^[A-Z]\d+$.
StageLike == {"S1", "S2", "S3", "M2", "J4", "P0046"}

COMMON_SUBJECT_CODES == {"AR", "EN", "HX", "SS", "S.S", "HIST", "HISTORY", "GEO", "GEOGRAPHY", "SOC", "SOCIAL"}

SECTION_SUBJECT_CODES == {"ISC", "BIO", "BIOLOGY", "CH", "CHEM", "CHEMISTRY", "PHYS", "PHYSICS", "MATH", "MATHEMATICS", "PURE", "APPLIED"}

\* A plausible slip: the two indicators the wrong way round.
SECTION_INDICATOR_TO_SECTION_Swapped == ("AR" :> "LANG") @@ ("EN" :> "GEN")

\* A plausible slip: the alias table is not consulted.
normalize_subject_code_NoAliases(code) == Upper(code)

SECTION_INDICATOR_TO_SECTION == ("AR" :> "GEN") @@ ("EN" :> "LANG")

SUBJECT_CODE_ALIASES == ("CHEM" :> "CH") @@ ("CHEMISTRY" :> "CH") @@ ("BIOLOGY" :> "BIO") @@ ("PHYSICS" :> "PHYS") @@ ("MATHEMATICS" :> "MATH") @@ ("HISTORY" :> "HX") @@ ("HIST" :> "HX") @@ ("GEOGRAPHY" :> "GEO") @@ ("SOCIAL" :> "SOC") @@ ("S.S" :> "SS")

\* normalize_subject_code(code), for a code already stripped.
normalize_subject_code(code) == LET c == Upper(code) IN IF c \in DOMAIN SUBJECT_CODE_ALIASES THEN SUBJECT_CODE_ALIASES[c] ELSE c

RECURSIVE LStrip(_)
LStrip(s) == IF s # << >> /\ Head(s) = " " THEN LStrip(Tail(s)) ELSE s

RECURSIVE RStrip(_)
RStrip(s) == IF s # << >> /\ s[Len(s)] = " " THEN RStrip(SubSeq(s, 1, Len(s) - 1)) ELSE s

Strip(s) == LStrip(RStrip(s))

\* re.sub(r'^\s*[\(\[][^\)\]]*[\)\]]\s*', '', name)
StripQualifier(s) ==
    LET t == LStrip(s)
        closers == {i \in 2..Len(t) : t[i] \in {")", "]"}}
    IN IF t # << >> /\ Head(t) \in {"(", "["} /\ closers # {}
       THEN LStrip(SubSeq(t, (CHOOSE i \in closers : \A j \in closers : i <= j) + 1, Len(t)))
       ELSE s

\* The words of the model that begin with OLD in any case, and what is
\* left of them without it.
OldRest == ("OLD" :> "") @@ ("old" :> "") @@ ("Old" :> "") @@ ("OLDS1" :> "S1") @@ ("oldS1" :> "S1")

\* re.sub(r'^\s*OLD\s*', '', name, flags=re.IGNORECASE)
StripOld(s) ==
    LET t == LStrip(s)
    IN IF t # << >> /\ Head(t) \in DOMAIN OldRest
       THEN (IF OldRest[Head(t)] = "" THEN LStrip(Tail(t)) ELSE <<OldRest[Head(t)]>> \o Tail(t))
       ELSE s

\* re.split(r'-+', name), with the empty pieces.
RECURSIVE SplitHyphens(_, _)
SplitHyphens(s, cur) == IF s = << >> THEN <<cur>> ELSE IF Head(s) = "-" THEN <<cur>> \o SplitHyphens(Tail(s), << >>) ELSE SplitHyphens(Tail(s), Append(cur, Head(s)))

\* The string of a piece, in upper case.
RECURSIVE JoinUpper(_)
JoinUpper(s) == IF s = << >> THEN "" ELSE Upper(Head(s)) \o JoinUpper(Tail(s))

\* parts = [p.strip().upper() for p in re.split(r'-+', name) if p.strip()]
Parts(name) ==
    LET kept == SelectSeq(SplitHyphens(name, << >>), LAMBDA p : Strip(p) # << >>)
    IN [i \in DOMAIN kept |-> JoinUpper(Strip(kept[i]))]

\* A plausible slip: the common branch returns the code as written.
parse_library_name_CommonAsGiven(library_name) ==
    IF library_name = << >> THEN <<None, None, None>>
    ELSE LET parts == Parts(StripOld(StripQualifier(Strip(library_name))))
         IN IF Len(parts) < 2 THEN <<None, None, None>>
            ELSE IF parts[1] \notin StageLike THEN <<None, None, None>>
            ELSE LET stage_code == parts[1]
                     part1 == parts[2]
                     normalized_part1 == normalize_subject_code(part1)
                 IN IF normalized_part1 \in COMMON_SUBJECT_CODES
                    THEN <<stage_code, None, part1>>
                    ELSE IF Len(parts) >= 3 /\ part1 \in {"PURE", "APPLIED"} /\ parts[3] = "MATH"
                    THEN <<stage_code, IF Len(parts) >= 4 /\ parts[4] \in DOMAIN SECTION_INDICATOR_TO_SECTION THEN SECTION_INDICATOR_TO_SECTION[parts[4]] ELSE None, part1 \o "-MATH">>
                    ELSE IF normalized_part1 \in SECTION_SUBJECT_CODES \/ part1 \in SECTION_SUBJECT_CODES
                    THEN <<stage_code, IF Len(parts) >= 3 /\ parts[3] \in DOMAIN SECTION_INDICATOR_TO_SECTION THEN SECTION_INDICATOR_TO_SECTION[parts[3]] ELSE None, IF normalized_part1 \in SECTION_SUBJECT_CODES THEN normalized_part1 ELSE part1>>
                    ELSE <<stage_code, None, normalized_part1>>

\* A plausible slip: the first part is taken for the stage unseen.
parse_library_name_NoStageCheck(library_name) ==
    IF library_name = << >> THEN <<None, None, None>>
    ELSE LET parts == Parts(StripOld(StripQualifier(Strip(library_name))))
         IN IF Len(parts) < 2 THEN <<None, None, None>>
            ELSE LET stage_code == parts[1]
                     part1 == parts[2]
                     normalized_part1 == normalize_subject_code(part1)
                 IN IF normalized_part1 \in COMMON_SUBJECT_CODES
                    THEN <<stage_code, None, normalized_part1>>
                    ELSE IF Len(parts) >= 3 /\ part1 \in {"PURE", "APPLIED"} /\ parts[3] = "MATH"
                    THEN <<stage_code, IF Len(parts) >= 4 /\ parts[4] \in DOMAIN SECTION_INDICATOR_TO_SECTION THEN SECTION_INDICATOR_TO_SECTION[parts[4]] ELSE None, part1 \o "-MATH">>
                    ELSE IF normalized_part1 \in SECTION_SUBJECT_CODES \/ part1 \in SECTION_SUBJECT_CODES
                    THEN <<stage_code, IF Len(parts) >= 3 /\ parts[3] \in DOMAIN SECTION_INDICATOR_TO_SECTION THEN SECTION_INDICATOR_TO_SECTION[parts[3]] ELSE None, IF normalized_part1 \in SECTION_SUBJECT_CODES THEN normalized_part1 ELSE part1>>
                    ELSE <<stage_code, None, normalized_part1>>

\* parse_library_name(library_name): <<stage_code, section_code, subject_code>>.
parse_library_name(library_name) ==
    IF library_name = << >> THEN <<None, None, None>>
    ELSE LET parts == Parts(StripOld(StripQualifier(Strip(library_name))))
         IN IF Len(parts) < 2 THEN <<None, None, None>>
            ELSE IF parts[1] \notin StageLike THEN <<None, None, None>>
            ELSE LET stage_code == parts[1]
                     part1 == parts[2]
                     normalized_part1 == normalize_subject_code(part1)
                 IN IF normalized_part1 \in COMMON_SUBJECT_CODES
                    THEN <<stage_code, None, normalized_part1>>
                    ELSE IF Len(parts) >= 3 /\ part1 \in {"PURE", "APPLIED"} /\ parts[3] = "MATH"
                    THEN <<stage_code, IF Len(parts) >= 4 /\ parts[4] \in DOMAIN SECTION_INDICATOR_TO_SECTION THEN SECTION_INDICATOR_TO_SECTION[parts[4]] ELSE None, part1 \o "-MATH">>
                    ELSE IF normalized_part1 \in SECTION_SUBJECT_CODES \/ part1 \in SECTION_SUBJECT_CODES
                    THEN <<stage_code, IF Len(parts) >= 3 /\ parts[3] \in DOMAIN SECTION_INDICATOR_TO_SECTION THEN SECTION_INDICATOR_TO_SECTION[parts[3]] ELSE None, IF normalized_part1 \in SECTION_SUBJECT_CODES THEN normalized_part1 ELSE part1>>
                    ELSE <<stage_code, None, normalized_part1>>

\* A plausible slip: the order share is left out of the revenue base.
calculate_teacher_payment_NoShare(section_revenue, teacher_watch_time_seconds, total_section_watch_time_seconds, revenue_percentage, tax_rate, section_order_percentage) ==
    LET watch_time_pct ==
            IF total_section_watch_time_seconds = 0 THEN RZero
            ELSE Rat(teacher_watch_time_seconds, total_section_watch_time_seconds)
        base_revenue == RMul(section_revenue, watch_time_pct)
        calc_revenue == RMul(base_revenue, revenue_percentage)
        tax_amount == RMul(calc_revenue, tax_rate)
    IN [watch_time_percentage |-> watch_time_pct,
        section_order_percentage |-> section_order_percentage,
        base_revenue |-> base_revenue,
        revenue_percentage_applied |-> revenue_percentage,
        calculated_revenue |-> calc_revenue,
        tax_rate_applied |-> tax_rate,
        tax_amount |-> tax_amount,
        final_payment |-> RSub(calc_revenue, tax_amount)]

\* A plausible slip: the tax is computed on the base revenue.
calculate_teacher_payment_TaxOnBase(section_revenue, teacher_watch_time_seconds, total_section_watch_time_seconds, revenue_percentage, tax_rate, section_order_percentage) ==
    LET watch_time_pct ==
            IF total_section_watch_time_seconds = 0 THEN RZero
            ELSE Rat(teacher_watch_time_seconds, total_section_watch_time_seconds)
        adjusted_pct == RMul(watch_time_pct, section_order_percentage)
        base_revenue == RMul(section_revenue, adjusted_pct)
        calc_revenue == RMul(base_revenue, revenue_percentage)
        tax_amount == RMul(base_revenue, tax_rate)
    IN [watch_time_percentage |-> watch_time_pct,
        section_order_percentage |-> section_order_percentage,
        base_revenue |-> base_revenue,
        revenue_percentage_applied |-> revenue_percentage,
        calculated_revenue |-> calc_revenue,
        tax_rate_applied |-> tax_rate,
        tax_amount |-> tax_amount,
        final_payment |-> RSub(calc_revenue, tax_amount)]

\* A plausible slip: an empty pool counts as the teacher's own, 100%.
calculate_teacher_payment_PoolZeroIsOne(section_revenue, teacher_watch_time_seconds, total_section_watch_time_seconds, revenue_percentage, tax_rate, section_order_percentage) ==
    LET watch_time_pct ==
            IF total_section_watch_time_seconds = 0 THEN ROne
            ELSE Rat(teacher_watch_time_seconds, total_section_watch_time_seconds)
        adjusted_pct == RMul(watch_time_pct, section_order_percentage)
        base_revenue == RMul(section_revenue, adjusted_pct)
        calc_revenue == RMul(base_revenue, revenue_percentage)
        tax_amount == RMul(calc_revenue, tax_rate)
    IN [watch_time_percentage |-> watch_time_pct,
        section_order_percentage |-> section_order_percentage,
        base_revenue |-> base_revenue,
        revenue_percentage_applied |-> revenue_percentage,
        calculated_revenue |-> calc_revenue,
        tax_rate_applied |-> tax_rate,
        tax_amount |-> tax_amount,
        final_payment |-> RSub(calc_revenue, tax_amount)]

\* calculate_teacher_payment(...): the breakdown of one teacher's payment
\* for one section.  The except branch needs an operand that is not a
\* number; the callers pass numbers only.
calculate_teacher_payment(section_revenue, teacher_watch_time_seconds, total_section_watch_time_seconds, revenue_percentage, tax_rate, section_order_percentage) ==
    LET watch_time_pct ==
            IF total_section_watch_time_seconds = 0 THEN RZero
            ELSE Rat(teacher_watch_time_seconds, total_section_watch_time_seconds)
        adjusted_pct == RMul(watch_time_pct, section_order_percentage)
        base_revenue == RMul(section_revenue, adjusted_pct)
        calc_revenue == RMul(base_revenue, revenue_percentage)
        tax_amount == RMul(calc_revenue, tax_rate)
        final_payment == RSub(calc_revenue, tax_amount)
    IN [watch_time_percentage |-> watch_time_pct,
        section_order_percentage |-> section_order_percentage,
        base_revenue |-> base_revenue,
        revenue_percentage_applied |-> revenue_percentage,
        calculated_revenue |-> calc_revenue,
        tax_rate_applied |-> tax_rate,
        tax_amount |-> tax_amount,
        final_payment |-> final_payment]

\* ------------------------------------------------------- reference data
\* financial_periods rows: id -> year.
period_year == (1 :> 2024) @@ (2 :> 2025)
Periods == DOMAIN period_year
Stages == {1, 2}
\* sections rows: id -> stage_id.
section_stage == (1 :> 1) @@ (2 :> 1) @@ (3 :> 2)
Sections == DOMAIN section_stage
\* teacher_assignments.section_id is nullable: 0 stands for NULL.
NullSection == 0
\* One SQLAlchemy session per request; two server processes.
Workers == {"w1", "w2"}

TaxRates == {RZero, Rat(1, 10)}
RevenuePercentages == {ROne, Rat(1, 2)}

VARIABLES
    subjects,            \* subjects rows [id, is_common]
    teacher_assignments, \* teacher_assignments rows
    section_revenues,    \* section_revenues rows
    historical_stats,    \* library_historical_stats rows
    teacher_payments,    \* committed teacher_payments rows
    next_payment_id,     \* the autoincrement of teacher_payments.id
    run,                 \* per session: the locals of its calculate_payments call
    request,             \* the latest calculate_payments request
    n_runs,              \* calculate_payments requests so far
    n_edits,             \* input edits so far
    prev_out,            \* (period, stage) -> the payment set its last commit left
    last_revenue,        \* the body of the latest create_or_update_section_revenue request
    response             \* the latest AutoMatchResponse

vars == <<subjects, teacher_assignments, section_revenues, historical_stats, teacher_payments, next_payment_id, run, request, n_runs, n_edits, prev_out, last_revenue, response>>

Pairs == Periods \X Stages

IdleRun == [pc |-> "idle", period_id |-> 0, stage_id |-> 0, section_revenues |-> << >>, section_order_percentages |-> << >>, assignments |-> << >>, watch_time_map |-> << >>, pools |-> << >>, idx |-> 0, snap |-> {}, dels |-> {}, floor |-> 0, payments_created |-> << >>, own |-> {}, committed |-> FALSE, res |-> "none"]

\* A finished request keeps its outcome only; its session is closed.
Finished(old, res) == [IdleRun EXCEPT !.pc = "done", !.committed = old.committed, !.dels = old.dels, !.res = res]

\* ------------------------------------------------ calculate_payments
\* The precondition checks that end the request with HTTP 400.
PreconditionError_Unchecked(revs, asgs) == "none"

PreconditionError(revs, asgs) == IF revs = << >> THEN "400 no revenue data" ELSE IF asgs = << >> THEN "400 no teacher assignments" ELSE "none"

\* The filter of the bulk DELETE.
DeleteMatches_Never(row, p, s) == FALSE

DeleteMatches_PeriodOnly(row, p, s) == row.period_id = p

DeleteMatches_OneSection(row, p, s) == row.period_id = p /\ row.stage_id = s /\ row.section_id = 1

DeleteMatches(row, p, s) == row.period_id = p /\ row.stage_id = s

\* What the other sessions see of teacher_payments after this session's
\* DELETE statement: the statement is part of the open transaction.
VisibleAfterDelete_Autocommit(pays, ids) == {x \in pays : x.id \notin ids}

VisibleAfterDelete(pays, ids) == pays

RECURSIVE SumWatchTime(_)
SumWatchTime(S) == IF S = {} THEN 0 ELSE LET x == CHOOSE y \in S : TRUE IN x.total_watch_time_seconds + SumWatchTime(S \ {x})

\* A plausible slip: the year filter of the stats query is left out.
WatchTimeMap_AllYears(asgs, stats, year) == [lib \in {asgs[i].library_id : i \in DOMAIN asgs} |-> SumWatchTime({h \in stats : h.library_id = lib})]

\* watch_time_map: library_id -> the sum of its stat rows of the period's year.
WatchTimeMap(asgs, stats, year) == [lib \in {asgs[i].library_id : i \in DOMAIN asgs} |-> SumWatchTime({h \in stats : h.library_id = lib /\ h.year = year})]

\* A plausible slip: the section filter is left out.
MapsToSection_AnySection(a, sid) == TRUE

\* A plausible slip: the assignments without section are left out.
MapsToSection_ExactOnly(a, sid) == a.section_id = sid

\* The filter of section_assignments.
MapsToSection(a, sid) == a.section_id = sid \/ a.section_id = NullSection

\* section_assignments of one revenue row.
SectionAssignments(asgs, sid) == SelectSeq(asgs, LAMBDA a : MapsToSection(a, sid))

\* A plausible slip: the pool counts the section's own assignments only.
TotalSectionWatchTime_SpecificOnly(sa, wmap) == SumSeq([i \in DOMAIN sa |-> IF sa[i].section_id = NullSection THEN 0 ELSE wmap[sa[i].library_id]])

TotalSectionWatchTime(sa, wmap) == SumSeq([i \in DOMAIN sa |-> wmap[sa[i].library_id]])

\* A plausible slip: a subject that is not found counts as common.
IsCommon_MissingIsCommon(subj, id) == \A j \in subj : j.id = id => j.is_common

IsCommon(subj, id) == \E j \in subj : j.id = id /\ j.is_common

\* section_order_pct of one assignment in one section.
SectionOrderPct(subj, a, pcts, sid) == IF IsCommon(subj, a.subject_id) THEN (IF sid \in DOMAIN pcts THEN pcts[sid] ELSE ROne) ELSE ROne

\* The TeacherPayment object built for one assignment in one section.
NewPayment(p, s, revenue, a, wmap, total, pcts, subj) ==
    LET teacher_watch_time == wmap[a.library_id]
        c == calculate_teacher_payment(revenue.total_revenue_egp, teacher_watch_time, total, a.revenue_percentage, a.tax_rate, SectionOrderPct(subj, a, pcts, revenue.section_id))
    IN [id |-> 0, period_id |-> p, assignment_id |-> a.id, library_id |-> a.library_id, stage_id |-> s, section_id |-> revenue.section_id, subject_id |-> a.subject_id, total_watch_time_seconds |-> teacher_watch_time, watch_time_percentage |-> c.watch_time_percentage, section_total_orders |-> revenue.total_orders, section_order_percentage |-> c.section_order_percentage, base_revenue |-> c.base_revenue, revenue_percentage_applied |-> c.revenue_percentage_applied, calculated_revenue |-> c.calculated_revenue, tax_rate_applied |-> c.tax_rate_applied, tax_amount |-> c.tax_amount, final_payment |-> c.final_payment]

\* The body of the loop over section_revenues, for one revenue row.
SectionPayments(p, s, revenue, asgs, wmap, pcts, subj) ==
    LET sa == SectionAssignments(asgs, revenue.section_id)
        total == TotalSectionWatchTime(sa, wmap)
    IN [i \in DOMAIN sa |-> NewPayment(p, s, revenue, sa[i], wmap, total, pcts, subj)]

\* A payment row without its primary key.
Content(row) == [row EXCEPT !.id = 0]

PairRows(pays, p, s) == {x \in pays : x.period_id = p /\ x.stage_id = s}

\* The stored payments of a pair as a bag of contents.
PairContents(pays, p, s) == LET rows == PairRows(pays, p, s) IN {<<c, Cardinality({x \in rows : Content(x) = c})>> : c \in {Content(x) : x \in rows}}

Free(r) == run[r].pc \in {"idle", "done"}

\* The loads, the precondition checks, and the start of the DELETE
\* statement, which sees the payment rows committed by now.  The sessions
\* are alike: a request is served by "w1" whenever "w1" is free.
CalcStart(r, p, s) ==
    /\ Free(r)
    /\ r = "w1" \/ ~Free("w1")
    /\ n_runs < MaxRuns
    /\ n_runs' = n_runs + 1
    /\ request' = [worker |-> r, period_id |-> p, stage_id |-> s]
    /\ LET revs == SortBySection({v \in section_revenues : v.period_id = p /\ v.stage_id = s})
           asgs == SortById({a \in teacher_assignments : a.stage_id = s})
           err == PreconditionError(revs, asgs)
           me == [IdleRun EXCEPT !.period_id = p, !.stage_id = s]
       IN run' = [run EXCEPT ![r] = IF err # "none" THEN Finished(me, err) ELSE [me EXCEPT !.pc = "deleting", !.section_revenues = revs, !.section_order_percentages = calculate_section_order_percentages(revs), !.assignments = asgs, !.snap = {x.id : x \in {y \in teacher_payments : DeleteMatches(y, p, s)}}, !.floor = next_payment_id]]
    /\ UNCHANGED <<last_revenue, response, subjects, teacher_assignments, section_revenues, historical_stats, teacher_payments, next_payment_id, n_edits, prev_out>>

HoldsRowLocks(r) == run[r].pc \in {"deleted", "mapped"}

\* The DELETE statement ends: it waits for the row locks of the other open
\* transactions, then deletes the rows of its snapshot that still exist.
CalcDeleteEnd(r) ==
    /\ run[r].pc = "deleting"
    /\ \A o \in Workers \ {r} : HoldsRowLocks(o) => run[o].dels \cap run[r].snap = {}
    /\ LET ids == run[r].snap \cap {x.id : x \in teacher_payments}
       IN /\ run' = [run EXCEPT ![r].pc = "deleted", ![r].dels = ids]
          /\ teacher_payments' = VisibleAfterDelete(teacher_payments, ids)
    /\ UNCHANGED <<last_revenue, response, request, subjects, teacher_assignments, section_revenues, historical_stats, next_payment_id, n_runs, n_edits, prev_out>>

\* The locals after the loop that fills watch_time_map.
AfterWatchTime(me, stats) == [me EXCEPT !.pc = "mapped", !.idx = 1, !.watch_time_map = WatchTimeMap(me.assignments, stats, period_year[me.period_id])]

\* The locals after one iteration of the loop over section_revenues: the
\* pool of the section, then one pending payment per assignment of it.
AfterSection(me, subj) ==
    LET revenue == me.section_revenues[me.idx]
        sa == SectionAssignments(me.assignments, revenue.section_id)
    IN [me EXCEPT !.idx = me.idx + 1, !.pools = Append(me.pools, <<revenue.section_id, TotalSectionWatchTime(sa, me.watch_time_map)>>), !.payments_created = me.payments_created \o SectionPayments(me.period_id, me.stage_id, revenue, me.assignments, me.watch_time_map, me.section_order_percentages, subj)]

RECURSIVE AfterAllSections(_, _)
AfterAllSections(me, subj) == IF me.idx > Len(me.section_revenues) THEN me ELSE AfterAllSections(AfterSection(me, subj), subj)

CalcWatchTime(r) ==
    /\ run[r].pc = "deleted"
    /\ run' = [run EXCEPT ![r] = AfterWatchTime(run[r], historical_stats)]
    /\ UNCHANGED <<last_revenue, response, request, subjects, teacher_assignments, section_revenues, historical_stats, teacher_payments, next_payment_id, n_runs, n_edits, prev_out>>

CalcSection(r) ==
    /\ run[r].pc = "mapped"
    /\ run[r].idx <= Len(run[r].section_revenues)
    /\ run' = [run EXCEPT ![r] = AfterSection(run[r], subjects)]
    /\ UNCHANGED <<last_revenue, response, request, subjects, teacher_assignments, section_revenues, historical_stats, teacher_payments, next_payment_id, n_runs, n_edits, prev_out>>

\* Both loops in one step: they read historical_stats and subjects only
\* and write nothing another session sees.
CalcCompute(r) ==
    /\ run[r].pc = "deleted"
    /\ run' = [run EXCEPT ![r] = AfterAllSections(AfterWatchTime(run[r], historical_stats), subjects)]
    /\ UNCHANGED <<last_revenue, response, request, subjects, teacher_assignments, section_revenues, historical_stats, teacher_payments, next_payment_id, n_runs, n_edits, prev_out>>

\* db.commit(): the DELETE and the pending INSERTs become visible together.
CalcCommit(r) ==
    /\ run[r].pc = "mapped"
    /\ run[r].idx > Len(run[r].section_revenues)
    /\ LET me == run[r]
           n == Len(me.payments_created)
           new == {[me.payments_created[i] EXCEPT !.id = next_payment_id + i - 1] : i \in 1..n}
           after == {x \in teacher_payments : x.id \notin me.dels} \cup new
       IN /\ teacher_payments' = after
          /\ next_payment_id' = next_payment_id + n
          /\ run' = [run EXCEPT ![r].pc = "committed", ![r].committed = TRUE, ![r].own = {x.id : x \in new}]
          /\ prev_out' = [prev_out EXCEPT ![<<me.period_id, me.stage_id>>] = [committed |-> TRUE, rows |-> PairContents(after, me.period_id, me.stage_id)]]
    /\ UNCHANGED <<last_revenue, response, request, subjects, teacher_assignments, section_revenues, historical_stats, n_runs, n_edits>>

\* The response: db.refresh of every created payment raises when its row
\* has been deleted meanwhile.
CalcRespond(r) ==
    /\ run[r].pc = "committed"
    /\ run' = [run EXCEPT ![r] = Finished(run[r], IF run[r].own \subseteq {x.id : x \in teacher_payments} THEN "ok" ELSE "500")]
    /\ UNCHANGED <<last_revenue, response, request, subjects, teacher_assignments, section_revenues, historical_stats, teacher_payments, next_payment_id, n_runs, n_edits, prev_out>>

\* An exception at any statement (a database error): db.rollback() and
\* HTTP 500.  Nothing this session wrote and did not commit is kept.
CalcFail(r) ==
    /\ run[r].pc \in {"deleting", "deleted", "mapped", "committed"}
    /\ run' = [run EXCEPT ![r] = Finished(run[r], "500")]
    /\ UNCHANGED <<last_revenue, response, request, subjects, teacher_assignments, section_revenues, historical_stats, teacher_payments, next_payment_id, n_runs, n_edits, prev_out>>

\* ------------------------------------------------------- input edits
\* A plausible slip: the lookup of the stored row misses, every call inserts.
create_or_update_section_revenue_AlwaysInsert(p, s, sec, orders, revenue) ==
    /\ n_edits' = n_edits + 1
    /\ last_revenue' = [period_id |-> p, stage_id |-> s, section_id |-> sec, total_orders |-> orders, total_revenue_egp |-> revenue]
    /\ section_revenues' = section_revenues \cup {last_revenue'}
    /\ UNCHANGED <<response, request, subjects, teacher_assignments, historical_stats, teacher_payments, next_payment_id, run, n_runs, prev_out>>

OrderCounts == {70}
Revenues == {RInt(100)}

\* POST /section-revenues/: update the row of (period, stage, section) when
\* there is one, else insert it.
create_or_update_section_revenue(p, s, sec, orders, revenue) ==
    /\ n_edits' = n_edits + 1
    /\ last_revenue' = [period_id |-> p, stage_id |-> s, section_id |-> sec, total_orders |-> orders, total_revenue_egp |-> revenue]
    /\ LET existing == {v \in section_revenues : v.period_id = p /\ v.stage_id = s /\ v.section_id = sec}
       IN IF existing = {} THEN section_revenues' = section_revenues \cup {last_revenue'}
          ELSE \E first \in existing : section_revenues' = (section_revenues \ {first}) \cup {[first EXCEPT !.total_orders = orders, !.total_revenue_egp = revenue]}
    /\ UNCHANGED <<response, request, subjects, teacher_assignments, historical_stats, teacher_payments, next_payment_id, run, n_runs, prev_out>>

\* The primary key of the next teacher_assignments row.
NextAssignmentId(asgs) == IF asgs = {} THEN 1 ELSE 1 + (CHOOSE i \in {a.id : a \in asgs} : \A a \in asgs : a.id <= i)

\* POST /teacher-assignments/: insert the row as given.
create_teacher_assignment(assignment) ==
    /\ teacher_assignments' = teacher_assignments \cup {[id |-> NextAssignmentId(teacher_assignments)] @@ assignment}
    /\ n_edits' = n_edits + 1
    /\ UNCHANGED <<last_revenue, response, request, subjects, section_revenues, historical_stats, teacher_payments, next_payment_id, run, n_runs, prev_out>>

\* PUT /teacher-assignments/{id}: set the columns the request gives (any
\* column but the id) of the row; 404 without the row.
update_teacher_assignment(id, patch) ==
    /\ \E a \in teacher_assignments :
        /\ a.id = id
        /\ teacher_assignments' = (teacher_assignments \ {a}) \cup {patch @@ a}
        /\ teacher_assignments' # teacher_assignments
    /\ n_edits' = n_edits + 1
    /\ UNCHANGED <<last_revenue, response, request, subjects, section_revenues, historical_stats, teacher_payments, next_payment_id, run, n_runs, prev_out>>

\* DELETE /teacher-assignments/{id}: 404 without the row.
delete_teacher_assignment(id) ==
    /\ \E a \in teacher_assignments : a.id = id /\ teacher_assignments' = teacher_assignments \ {a}
    /\ n_edits' = n_edits + 1
    /\ UNCHANGED <<last_revenue, response, request, subjects, section_revenues, historical_stats, teacher_payments, next_payment_id, run, n_runs, prev_out>>

\* The rows of the stages, subjects and sections tables by their codes.
stage_code == (1 :> "S1") @@ (2 :> "S2")
subject_code == (1 :> "AR") @@ (2 :> "MATH")
section_code == (1 :> "GEN") @@ (2 :> "LANG") @@ (3 :> "GEN")

\* A plausible slip: a section that is not found leaves the assignment
\* without section instead of skipping the library.
AutoMatchOne_SectionMissingIsNull(lib, parsed, asgs, subj) ==
    LET stages == {s \in Stages : stage_code[s] = parsed[1]}
        found == {j \in subj : j.id \in DOMAIN subject_code /\ subject_code[j.id] = parsed[3]}
        result(matched, message) == [library_id |-> lib.id, library_name |-> lib.name, stage_code |-> parsed[1], section_code |-> parsed[2], subject_code |-> parsed[3], matched |-> matched, message |-> message]
    IN IF parsed[1] = None \/ parsed[3] = None THEN [result |-> result(FALSE, "Could not parse library name"), row |-> {}]
       ELSE IF stages = {} THEN [result |-> result(FALSE, "Stage " \o parsed[1] \o " not found"), row |-> {}]
       ELSE IF found = {} THEN [result |-> result(FALSE, "Subject " \o parsed[3] \o " not found"), row |-> {}]
       ELSE LET stage == CHOOSE s \in stages : TRUE
                subject == CHOOSE j \in found : TRUE
                secs == {c \in Sections : section_stage[c] = stage /\ section_code[c] = parsed[2]}
                section == IF parsed[2] # None /\ ~subject.is_common /\ secs # {} THEN CHOOSE c \in secs : TRUE ELSE NullSection
            IN IF \E a \in asgs : a.library_id = lib.id /\ a.stage_id = stage /\ a.subject_id = subject.id THEN [result |-> result(TRUE, "Already assigned"), row |-> {}]
               ELSE [result |-> result(TRUE, "Successfully matched"), row |-> {[library_id |-> lib.id, stage_id |-> stage, section_id |-> section, subject_id |-> subject.id, tax_rate |-> RZero, revenue_percentage |-> ROne]}]

\* One iteration of the loop over the libraries, for the codes parsed from
\* the name of the library: the AutoMatchResult appended, and the row
\* added to the session, as a set: empty when the name does not parse,
\* when the stage, subject or section is not found, or when a row of the
\* library, stage and subject is stored.
AutoMatchOne(lib, parsed, asgs, subj) ==
    LET stages == {s \in Stages : stage_code[s] = parsed[1]}
        found == {j \in subj : j.id \in DOMAIN subject_code /\ subject_code[j.id] = parsed[3]}
        result(matched, message) == [library_id |-> lib.id, library_name |-> lib.name, stage_code |-> parsed[1], section_code |-> parsed[2], subject_code |-> parsed[3], matched |-> matched, message |-> message]
    IN IF parsed[1] = None \/ parsed[3] = None THEN [result |-> result(FALSE, "Could not parse library name"), row |-> {}]
       ELSE IF stages = {} THEN [result |-> result(FALSE, "Stage " \o parsed[1] \o " not found"), row |-> {}]
       ELSE IF found = {} THEN [result |-> result(FALSE, "Subject " \o parsed[3] \o " not found"), row |-> {}]
       ELSE LET stage == CHOOSE s \in stages : TRUE
                subject == CHOOSE j \in found : TRUE
                secs == {c \in Sections : section_stage[c] = stage /\ section_code[c] = parsed[2]}
                section == IF parsed[2] # None /\ ~subject.is_common /\ secs # {} THEN CHOOSE c \in secs : TRUE ELSE NullSection
            IN IF parsed[2] # None /\ ~subject.is_common /\ secs = {} THEN [result |-> result(FALSE, "Section " \o parsed[2] \o " not found for stage " \o parsed[1]), row |-> {}]
               ELSE IF \E a \in asgs : a.library_id = lib.id /\ a.stage_id = stage /\ a.subject_id = subject.id THEN [result |-> result(TRUE, "Already assigned"), row |-> {}]
               ELSE [result |-> result(TRUE, "Successfully matched"), row |-> {[library_id |-> lib.id, stage_id |-> stage, section_id |-> section, subject_id |-> subject.id, tax_rate |-> RZero, revenue_percentage |-> ROne]}]

\* A plausible slip: the stored rows are not looked at.
AutoMatchLoop_NoExistingCheck(libraries, asgs, subj) == [i \in DOMAIN libraries |-> AutoMatchOne(libraries[i], parse_library_name(libraries[i].name), {}, subj)]

\* The loop over the libraries: what each iteration appends and adds.  The
\* session does not autoflush, so the "existing" query of every iteration
\* sees the stored rows only.
AutoMatchLoop(libraries, asgs, subj) == [i \in DOMAIN libraries |-> AutoMatchOne(libraries[i], parse_library_name(libraries[i].name), asgs, subj)]

\* The rows added to the session, in the order of the loop.
RECURSIVE PendingRows(_)
PendingRows(outcomes) == IF outcomes = << >> THEN << >> ELSE (IF Head(outcomes).row = {} THEN << >> ELSE <<CHOOSE x \in Head(outcomes).row : TRUE>>) \o PendingRows(Tail(outcomes))

\* The AutoMatchResponse of the request.
AutoMatchResponse(results, n) ==
    LET matched_count == Cardinality({i \in DOMAIN results : results[i].matched})
    IN [total_libraries |-> n, matched |-> matched_count, unmatched |-> n - matched_count, results |-> results]

\* db.commit() and the response, after the loop.
AutoMatchCommit(outcomes, rows, first) ==
    /\ teacher_assignments' = teacher_assignments \cup {[id |-> first + i - 1] @@ rows[i] : i \in DOMAIN rows}
    /\ response' = AutoMatchResponse([i \in DOMAIN outcomes |-> outcomes[i].result], Len(outcomes))

\* POST /teacher-assignments/auto-match over the libraries Bunny lists.
auto_match_teachers(libraries) ==
    /\ AutoMatchCommit(AutoMatchLoop(libraries, teacher_assignments, subjects), PendingRows(AutoMatchLoop(libraries, teacher_assignments, subjects)), NextAssignmentId(teacher_assignments))
    /\ n_edits' = n_edits + 1
    /\ UNCHANGED <<last_revenue, request, subjects, section_revenues, historical_stats, teacher_payments, next_payment_id, run, n_runs, prev_out>>

\* ------------------------------------------------------ specifications
Assignment(id, lib, stage, sec, subj, tax, rp) == [id |-> id, library_id |-> lib, stage_id |-> stage, section_id |-> sec, subject_id |-> subj, tax_rate |-> tax, revenue_percentage |-> rp]

Revenue(p, s, sec, orders, revenue) == [period_id |-> p, stage_id |-> s, section_id |-> sec, total_orders |-> orders, total_revenue_egp |-> revenue]

Stat(lib, year, month, secs) == [library_id |-> lib, year |-> year, month |-> month, total_watch_time_seconds |-> secs]

InitRuns ==
    /\ teacher_payments = {}
    /\ next_payment_id = 1
    /\ run = [r \in Workers |-> IdleRun]
    /\ n_runs = 0
    /\ n_edits = 0
    /\ request = [worker |-> "none", period_id |-> 0, stage_id |-> 0]
    /\ prev_out = [pr \in Pairs |-> [committed |-> FALSE, rows |-> {}]]
    /\ last_revenue = [period_id |-> 0, stage_id |-> 0, section_id |-> 0, total_orders |-> 0, total_revenue_egp |-> RZero]
    /\ response = AutoMatchResponse(<< >>, 0)

\* A populated database: a common-subject library without section and a
\* section-specific library in stage 1, one library in stage 2, revenue
\* entered for period 1 only.
Init ==
    /\ subjects = {[id |-> 1, is_common |-> TRUE], [id |-> 2, is_common |-> FALSE]}
    /\ teacher_assignments = {Assignment(1, 1, 1, NullSection, 1, Rat(1, 10), Rat(1, 2)), Assignment(2, 2, 1, 1, 2, RZero, ROne), Assignment(3, 3, 2, 3, 2, RZero, ROne)}
    /\ section_revenues = {Revenue(1, 1, 1, 30, RInt(100)), Revenue(1, 1, 2, 70, RInt(200)), Revenue(1, 2, 3, 10, RInt(50))}
    /\ historical_stats = {Stat(1, 2024, 1, 6000), Stat(1, 2024, 2, 4000), Stat(2, 2024, 1, 3000), Stat(3, 2024, 1, 1000), Stat(1, 2025, 1, 500)}
    /\ InitRuns

\* The (period, stage) pairs the requests name.
Requests == {<<1, 1>>, <<1, 2>>, <<2, 1>>}

Start == \E r \in Workers, q \in Requests : CalcStart(r, q[1], q[2])
DeleteEnd == \E r \in Workers : CalcDeleteEnd(r)
Compute == \E r \in Workers : CalcCompute(r)
Commit == \E r \in Workers : CalcCommit(r)
Respond == \E r \in Workers : CalcRespond(r)
Fail == \E r \in Workers : CalcFail(r)
UpsertRevenue == n_edits < MaxEdits /\ \E p \in Periods, sec \in {1}, o \in OrderCounts, v \in Revenues : create_or_update_section_revenue(p, section_stage[sec], sec, o, v)
UpdateAssignment == n_edits < MaxEdits /\ \E id \in {1, 3}, s \in Stages, tx \in {RZero} : update_teacher_assignment(id, [stage_id |-> s, tax_rate |-> tx])

Next == Start \/ DeleteEnd \/ Compute \/ Commit \/ Respond \/ Fail \/ UpsertRevenue \/ UpdateAssignment

Spec == Init /\ [][Next]_vars

\* One session, no edits, the two loops of the calculation step by step;
\* the database is any of a family of populated databases of period 1,
\* stage 1: two libraries, each common or section-specific, with or
\* without section, and two sections with their orders and revenue.
InitCalc ==
    /\ subjects = {[id |-> 1, is_common |-> TRUE], [id |-> 2, is_common |-> FALSE]}
    /\ \E s1 \in {NullSection, 1, 2}, j1 \in {1, 2}, t1 \in TaxRates, r1 \in RevenuePercentages, s2 \in {NullSection, 1, 2} :
        teacher_assignments = {Assignment(1, 1, 1, s1, j1, t1, r1), Assignment(2, 2, 1, s2, 2, RZero, ROne)}
    /\ \E o1 \in {0, 30}, o2 \in {0, 70} :
        section_revenues = {Revenue(1, 1, 1, o1, RInt(100)), Revenue(1, 1, 2, o2, RInt(200))}
    /\ \E w1 \in {0, 10000}, w2 \in {0, 2000} :
        historical_stats = {Stat(1, 2024, 1, w1), Stat(2, 2024, 1, w2), Stat(2, 2024, 2, 1000), Stat(1, 2025, 1, 500)}
    /\ InitRuns

StartCalc == \E q \in Requests : CalcStart("w1", q[1], q[2])
DeleteEndCalc == CalcDeleteEnd("w1")
WatchTimeCalc == CalcWatchTime("w1")
SectionCalc == CalcSection("w1")
CommitCalc == CalcCommit("w1")
RespondCalc == CalcRespond("w1")

NextCalc == StartCalc \/ DeleteEndCalc \/ WatchTimeCalc \/ SectionCalc \/ CommitCalc \/ RespondCalc

SpecCalc == InitCalc /\ [][NextCalc]_vars

\* The order counts entered for a section.
OrderInputs == {0, 1, 2, 5}

\* One to three sections with revenue in period 1, stage 1, each with any
\* of the order counts; section 4 has no row in the sections table.  A
\* common-subject library without section, and a second library whose
\* subject is subject 1, subject 2 or the id 3, which has no row in the
\* subjects table (the foreign keys are not enforced on the SQLite engine).
InitShares ==
    /\ subjects = {[id |-> 1, is_common |-> TRUE], [id |-> 2, is_common |-> FALSE]}
    /\ \E s2 \in {NullSection, 1}, j2 \in {1, 2, 3} :
        teacher_assignments = {Assignment(1, 1, 1, NullSection, 1, Rat(1, 10), Rat(1, 2)), Assignment(2, 2, 1, s2, j2, RZero, ROne)}
    /\ \E S \in SUBSET {1, 2, 4} : S # {} /\ \E ord \in [S -> OrderInputs] :
        section_revenues = {Revenue(1, 1, sec, ord[sec], RInt(100)) : sec \in S}
    /\ \E w2 \in {0, 2000} :
        historical_stats = {Stat(1, 2024, 1, 6000), Stat(2, 2024, 1, w2)}
    /\ InitRuns

StartShares == CalcStart("w1", 1, 1)
DeleteEndShares == CalcDeleteEnd("w1")
ComputeShares == CalcCompute("w1")
CommitShares == CalcCommit("w1")
RespondShares == CalcRespond("w1")

NextShares == StartShares \/ DeleteEndShares \/ ComputeShares \/ CommitShares \/ RespondShares

SpecShares == InitShares /\ [][NextShares]_vars

\* The libraries Bunny lists: a common-subject library with an (OLD)
\* qualifier, two section-specific libraries, one whose name does not parse.
Library(id, name) == [id |-> id, name |-> name]
BunnyLibraries == <<Library(1, <<"(", "OLD", ")", "S1", "-", "AR", "-", "P0046">>), Library(2, <<"S1", "-", "MATH", "-", "EN", "-", "-", "Shady">>), Library(3, <<"S2", "-", "MATH", "-", "AR">>), Library(4, <<"Intro">>)>>

\* An empty assignment table beside the stages, sections and subjects.
InitAssign ==
    /\ subjects = {[id |-> 1, is_common |-> TRUE], [id |-> 2, is_common |-> FALSE]}
    /\ teacher_assignments = {}
    /\ section_revenues = {}
    /\ historical_stats = {}
    /\ InitRuns

CreateAssignment == n_edits < MaxOps /\ \E lib \in {1, 2}, sec \in {NullSection, 2}, j \in {1, 2} : create_teacher_assignment([library_id |-> lib, stage_id |-> 1, section_id |-> sec, subject_id |-> j, tax_rate |-> RZero, revenue_percentage |-> Rat(19, 20)])
EditAssignment == n_edits < MaxOps /\ \E id \in {1, 2}, patch \in {[section_id |-> NullSection], [subject_id |-> 1], [library_id |-> 1]} : update_teacher_assignment(id, patch)
DeleteAssignment == n_edits < MaxOps /\ \E id \in {1, 2} : delete_teacher_assignment(id)
AutoMatch == n_edits < MaxOps /\ \E n \in {2, 4} : auto_match_teachers(SubSeq(BunnyLibraries, 1, n))

NextAssign == CreateAssignment \/ EditAssignment \/ DeleteAssignment \/ AutoMatch

SpecAssign == InitAssign /\ [][NextAssign]_vars

\* Further libraries: a section-specific subject without section indicator,
\* a section the stage does not have, a stage and a subject without row.
MoreLibraries == <<Library(5, <<"S1", "-", "MATH", "-", "Teacher">>), Library(6, <<"S2", "-", "MATH", "-", "EN">>), Library(7, <<"S3", "-", "AR">>), Library(8, <<"S1", "-", "CHEM", "-", "AR">>)>>

\* The lists get_bunny_libraries returns: up to two of the libraries, in
\* any order, or all of them.
LibraryLists ==
    LET all == BunnyLibraries \o MoreLibraries
    IN {<< >>, all} \cup {<<all[i]>> : i \in DOMAIN all} \cup {<<all[q[1]], all[q[2]]>> : q \in {p \in (DOMAIN all) \X (DOMAIN all) : p[1] # p[2]}}

\* Auto-match requests only, one after the other, on an empty assignment
\* table.
MatchAny == n_edits < MaxMatches /\ \E libraries \in LibraryLists : auto_match_teachers(libraries)

NextMatch == MatchAny

SpecMatch == InitAssign /\ [][NextMatch]_vars

\* The revenue a request enters for a section.
RevenueInputs == {RInt(100), RInt(200)}

\* Revenue entries only, one request after the other, on an empty
\* section_revenues table: any period and section, with its stage.
UpsertAny == n_edits < MaxUpserts /\ \E p \in Periods, sec \in Sections, o \in {0, 70}, v \in RevenueInputs : create_or_update_section_revenue(p, section_stage[sec], sec, o, v)

NextRevenue == UpsertAny

SpecRevenue == InitAssign /\ [][NextRevenue]_vars

\* The words of a name joined by hyphens.
RECURSIVE Hyphenate(_)
Hyphenate(words) == IF words = << >> THEN << >> ELSE IF Len(words) = 1 THEN words ELSE <<Head(words), "-">> \o Hyphenate(Tail(words))

\* Names <stage>-<code>-... with a code of the common set, in either case,
\* with the words they are made of.
CommonCases == {[name |-> Hyphenate(<<st, c>> \o rest), stage |-> st, code |-> c] : st \in {"S1", "s1", "M2"}, c \in COMMON_SUBJECT_CODES \cup {"hist"}, rest \in {<< >>, <<"P0046">>, <<"AR", "Teacher">>}}

\* The qualifiers a name starts with: none, one in parentheses or
\* brackets, a bare OLD.
Qualifiers == {<< >>, <<"(", "OLD", ")">>, <<"(", "0LD", ")">>, <<"[", "old", "]", " ">>, <<"OLD", " ">>}

\* Names <stage>-<code>-<AR|EN>--Name with a section-specific code, after
\* any of the qualifiers or with OLD written onto the stage (not after a
\* bare OLD: the second OLD stays).
SectionCases == {[name |-> k[1] \o Hyphenate(<<k[2], k[3], k[4]>>) \o <<"-", "-", "Name">>, stage |-> k[2], code |-> k[3], indicator |-> k[4]] : k \in {q \in Qualifiers \X {"S1", "oldS1"} \X (SECTION_SUBJECT_CODES \cup {"chem"}) \X {"AR", "EN"} : ~(q[1] = <<"OLD", " ">> /\ q[2] = "oldS1")}}

\* Further names: empty, blank, one token, no stage, an unknown subject,
\* the two-word subjects, no indicator, an indicator out of place, two
\* qualifiers, OLD twice, an open parenthesis, blanks around the hyphens.
EdgeNames == {<< >>, <<" ">>, <<"-">>, <<"Intro">>, <<"S1">>, <<"S1", "-">>, <<"-", "S1", "-", "-">>, <<"(", "OLD", ")">>, <<"OLD">>, <<"OLD", "-", "S1">>, <<"(", "OLD", ")", "S1">>,
              <<"Intro", "-", "AR">>, <<"P0046", "-", "AR">>, <<"AR", "-", "S1">>, <<"OLD", "-", "S1", "-", "MATH", "-", "EN">>, <<"S1", "-", "FOO", "-", "AR">>, <<"S1", "-", "Teacher">>,
              <<"S1", "-", "PURE", "-", "MATH", "-", "AR", "-", "Teacher">>, <<"S1", "-", "APPLIED", "-", "MATH", "-", "EN">>, <<"S1", "-", "PURE", "-", "MATH">>, <<"S1", "-", "PURE", "-", "MATH", "-", "Teacher", "-", "AR">>,
              <<"S1", "-", "MATH">>, <<"S1", "-", "MATH", "-", "Teacher">>, <<"S1", "-", "MATH", "-", "Teacher", "-", "AR">>, <<"S1", "-", "math", "-", "en">>, <<"S1", "-", "MATH", "-", "MATH">>,
              <<"(", "X", ")", "(", "OLD", ")", "S1", "-", "MATH", "-", "AR">>, <<"(", "OLD", " ", "S1", "-", "MATH", "-", "AR">>, <<"(", "S1", "-", "MATH", ")", "-", "AR">>, <<" ", "S1", " ", "-", " ", "MATH", " ", "-", " ", "EN", " ">>,
              <<"S1", " ", "-", "AR">>, <<"S1", "-", " ", "-", "CHEMISTRY", "-", "-", "-", "EN">>, <<"OLD", " ", "oldS1", "-", "MATH", "-", "AR">>}

LibraryNames == {k.name : k \in CommonCases \cup SectionCases} \cup EdgeNames

\* parse_library_name on its own: auto-match requests for a list of one
\* library of any of the names; the response shows the parsed codes.
ParseAny == n_edits < MaxParses /\ \E library_name \in LibraryNames : auto_match_teachers(<<Library(1, library_name)>>)

NextParse == ParseAny

SpecParse == InitAssign /\ [][NextParse]_vars

\* ---------------------------------------------------------------- claims
PairOf(r) == <<run[r].period_id, run[r].stage_id>>
PaymentIds == {x.id : x \in teacher_payments}
Commits(r) == run[r].pc = "mapped" /\ run'[r].pc = "committed"

\* C1: when a run for (P, S) commits, every stored row of (P, S) was
\* committed after the run's DELETE began: all the rows the run created
\* are stored, no row of an earlier run survives, and when nobody else
\* inserted since the DELETE began the rows of (P, S) are exactly the rows
\* the run created.
C1_FullRegeneration == [][\A r \in Workers : Commits(r) => LET ids == {x.id : x \in PairRows(teacher_payments', run[r].period_id, run[r].stage_id)} IN run'[r].own \subseteq ids /\ Cardinality(run'[r].own) = Len(run[r].payments_created) /\ (\A i \in ids : i >= run[r].floor) /\ (next_payment_id = run[r].floor => ids = run'[r].own)]_vars

\* A run committed after an input edit and replaced the rows of an earlier run.
C1_Witness == \E r \in Workers : run[r].pc = "committed" /\ run[r].dels # {} /\ n_edits > 0 /\ run[r].own # {} /\ {x.id : x \in PairRows(teacher_payments, run[r].period_id, run[r].stage_id)} = run[r].own

NoRevenueData(p, s) == ~\E v \in section_revenues : v.period_id = p /\ v.stage_id = s
NoAssignments(s) == ~\E a \in teacher_assignments : a.stage_id = s

\* C2: a request for a (period, stage) without SectionRevenue rows, or for
\* a stage without assignments, ends at once with an HTTP 400 error, and
\* the stored payments are what they were before the call.
C2_PreconditionAbort == [][(n_runs' = n_runs + 1 /\ (NoRevenueData(request'.period_id, request'.stage_id) \/ NoAssignments(request'.stage_id))) => (run'[request'.worker].pc = "done" /\ run'[request'.worker].res = (IF NoRevenueData(request'.period_id, request'.stage_id) THEN "400 no revenue data" ELSE "400 no teacher assignments") /\ ~run'[request'.worker].committed /\ run'[request'.worker].dels = {} /\ teacher_payments' = teacher_payments /\ next_payment_id' = next_payment_id)]_vars

\* A request ended with "no teacher assignments" while payments of its
\* (period, stage) are stored.
C2_Witness == request.worker \in Workers /\ run[request.worker].pc = "done" /\ run[request.worker].res = "400 no teacher assignments" /\ PairRows(teacher_payments, request.period_id, request.stage_id) # {}

\* C3 as stated: a run that fails after it started deleting has not
\* changed the stored payments.
C3_FailedRunChangedNothing == \A r \in Workers : (run[r].pc = "done" /\ run[r].res = "500") => ~run[r].committed

\* C3 as amended: the stored payments change at a commit only, where the
\* deleted rows go and all the created rows come together; a run that
\* fails before its commit changes nothing.
C3_AtomicReplace == [][\A r \in Workers : (run'[r] # run[r]) => IF Commits(r) THEN (teacher_payments' \cap teacher_payments = {x \in teacher_payments : x.id \notin run[r].dels} /\ {Content(x) : x \in teacher_payments' \ teacher_payments} = {Content(run[r].payments_created[i]) : i \in DOMAIN run[r].payments_created} /\ Cardinality(teacher_payments' \ teacher_payments) = Len(run[r].payments_created)) ELSE teacher_payments' = teacher_payments]_vars

\* A run with a DELETE of stored rows behind it failed before its commit,
\* and the rows are still stored.
C3_Witness == \E r \in Workers : run[r].pc = "done" /\ run[r].res = "500" /\ ~run[r].committed /\ run[r].dels # {} /\ run[r].dels \subseteq PaymentIds

\* C4: the stored payments never hold two rows of one period, stage,
\* assignment and section.
C4_NoDuplicateRows == \A x, y \in teacher_payments : (x.period_id = y.period_id /\ x.stage_id = y.stage_id /\ x.assignment_id = y.assignment_id /\ x.section_id = y.section_id) => x.id = y.id

\* C5: a run that commits for a (period, stage) whose inputs are those of
\* the commit before it leaves the same bag of payment contents.
C5_Idempotent == [][\A r \in Workers : (Commits(r) /\ prev_out[PairOf(r)].committed) => PairContents(teacher_payments', run[r].period_id, run[r].stage_id) = prev_out[PairOf(r)].rows]_vars

\* A second run of a pair committed and replaced the rows of the first.
C5_Witness == \E r \in Workers : run[r].pc = "committed" /\ run[r].dels # {} /\ run[r].own # {} /\ run[r].own \subseteq PaymentIds /\ \E x \in teacher_payments : x.final_payment # RZero

\* C6: a step of a run changes the stored payments of no (period, stage)
\* other than its own.
C6_OtherPairsUntouched == [][\A r \in Workers : (run'[r] # run[r] /\ ~Free(r)) => \A q \in Pairs : q # PairOf(r) => PairRows(teacher_payments', q[1], q[2]) = PairRows(teacher_payments, q[1], q[2])]_vars

\* Two runs of different pairs overlapped (each began its DELETE before
\* the other committed) and the rows of both are stored.
C6_Witness == \E r, o \in Workers : r # o /\ run[r].pc = "committed" /\ run[o].pc = "committed" /\ PairOf(r) # PairOf(o) /\ run[r].own # {} /\ run[o].own # {} /\ (run[r].own \cup run[o].own) \subseteq PaymentIds /\ (\A i \in run[o].own : run[r].floor <= i) /\ (\A i \in run[r].own : run[o].floor <= i)

\* The inputs of a stored payment, read from the tables.
RawWatchTime(lib, p) == SumWatchTime({h \in historical_stats : h.library_id = lib /\ h.year = period_year[p]})

PairRevenues(p, s) == {v \in section_revenues : v.period_id = p /\ v.stage_id = s}

RevenueOf(x) == CHOOSE v \in PairRevenues(x.period_id, x.stage_id) : v.section_id = x.section_id

RECURSIVE SumOrders(_)
SumOrders(S) == IF S = {} THEN 0 ELSE LET v == CHOOSE y \in S : TRUE IN v.total_orders + SumOrders(S \ {v})

\* The order share of a section among the sections of its (period, stage).
OrderShare(p, s, sec) ==
    LET revs == PairRevenues(p, s)
        total == SumOrders(revs)
        mine == CHOOSE v \in revs : v.section_id = sec
    IN IF total = 0 THEN Rat(1, Cardinality(revs)) ELSE Rat(mine.total_orders, total)

\* The assignments of a stage that are paid in a section.
PaidIn(s, sec) == {a \in teacher_assignments : a.stage_id = s /\ (a.section_id = sec \/ a.section_id = NullSection)}

RECURSIVE RawSum(_, _)
RawSum(S, p) == IF S = {} THEN 0 ELSE LET a == CHOOSE y \in S : TRUE IN RawWatchTime(a.library_id, p) + RawSum(S \ {a}, p)

\* The pool of the specification: order-share-allocated watch time of the
\* common-subject assignments plus raw watch time of the others.
RECURSIVE AllocatedSum(_, _, _, _)
AllocatedSum(S, p, s, sec) == IF S = {} THEN RZero ELSE LET a == CHOOSE y \in S : TRUE IN RAdd(IF IsCommon(subjects, a.subject_id) THEN RMul(RInt(RawWatchTime(a.library_id, p)), OrderShare(p, s, sec)) ELSE RInt(RawWatchTime(a.library_id, p)), AllocatedSum(S \ {a}, p, s, sec))

CommonPayments == {x \in teacher_payments : IsCommon(subjects, x.subject_id)}

\* C7 as stated: the watch time stored with a payment of a common subject
\* is the library's raw total times the order share of the section.
C7_AllocatedWatchTime == \A x \in CommonPayments : RInt(x.total_watch_time_seconds) = RMul(RInt(RawWatchTime(x.library_id, x.period_id)), OrderShare(x.period_id, x.stage_id, x.section_id))

\* C7 as amended: the watch time stored with every payment is the
\* library's raw total of the period's year, in every section alike; the
\* order share of the section is stored beside it as
\* section_order_percentage for a common subject, 1 for any other.
C7_RawWatchTime == \A x \in teacher_payments : x.total_watch_time_seconds = RawWatchTime(x.library_id, x.period_id) /\ x.section_order_percentage = (IF x \in CommonPayments THEN OrderShare(x.period_id, x.stage_id, x.section_id) ELSE ROne)

\* The example of the specification: 10,000 s raw, orders 30 and 70; the
\* payment of the section with 30 orders stores 10,000 s and the share 3/10.
C7_Witness == \E x \in CommonPayments : x.total_watch_time_seconds = 10000 /\ x.section_order_percentage = Rat(3, 10) /\ x.section_total_orders = 30

Calculating == {r \in Workers : run[r].pc \in {"mapped", "committed"}}

\* C8 as stated: the pool of a section is the allocated watch time of its
\* common-subject assignments plus the raw watch time of the others.
C8_AllocatedPool == \A r \in Calculating : \A i \in DOMAIN run[r].pools : RInt(run[r].pools[i][2]) = AllocatedSum(PaidIn(run[r].stage_id, run[r].pools[i][1]), run[r].period_id, run[r].stage_id, run[r].pools[i][1])

\* C8 as amended: the pool of a section is the sum of the raw watch time
\* of every assignment of the stage whose section is that section or
\* NULL, and it is the denominator of every payment of the section.
C8_RawPool == \A r \in Calculating : \A i \in DOMAIN run[r].pools : LET sec == run[r].pools[i][1] pool == run[r].pools[i][2] IN pool = RawSum(PaidIn(run[r].stage_id, sec), run[r].period_id) /\ \A k \in DOMAIN run[r].payments_created : LET x == run[r].payments_created[k] IN x.section_id = sec => x.watch_time_percentage = (IF pool = 0 THEN RZero ELSE Rat(x.total_watch_time_seconds, pool))

\* A pool that holds a common-subject library without section (10,000 s)
\* and a section-specific library (3,000 s).
C8_Witness == \E r \in Calculating : \E i \in DOMAIN run[r].pools : run[r].pools[i][2] = 13000 /\ \E a, b \in PaidIn(run[r].stage_id, run[r].pools[i][1]) : IsCommon(subjects, a.subject_id) /\ a.section_id = NullSection /\ ~IsCommon(subjects, b.subject_id) /\ b.section_id # NullSection

\* C9 as stated: base_revenue is the section's revenue times the stored
\* watch_time_percentage, and calculated_revenue is base_revenue times
\* revenue_percentage_applied.
C9_BaseRevenueNoOtherFactor == \A x \in teacher_payments : x.base_revenue = RMul(RevenueOf(x).total_revenue_egp, x.watch_time_percentage) /\ x.calculated_revenue = RMul(x.base_revenue, x.revenue_percentage_applied)

\* C9 as amended: base_revenue is the section's revenue times the stored
\* watch_time_percentage times the stored section_order_percentage, which
\* is 1 unless the subject is common; calculated_revenue is base_revenue
\* times revenue_percentage_applied.
C9_BaseRevenueWithOrderShare == \A x \in teacher_payments : x.base_revenue = RMul(RMul(RevenueOf(x).total_revenue_egp, x.watch_time_percentage), x.section_order_percentage) /\ x.calculated_revenue = RMul(x.base_revenue, x.revenue_percentage_applied) /\ (x \notin CommonPayments => x.section_order_percentage = ROne)

\* A common-subject payment with a revenue base under an order share
\* strictly between 0 and 1.
C9_Witness == \E x \in CommonPayments : x.base_revenue # RZero /\ x.section_order_percentage \notin {RZero, ROne} /\ x.revenue_percentage_applied # ROne

\* C10: tax_amount is calculated_revenue times tax_rate_applied,
\* final_payment is calculated_revenue minus tax_amount, and so
\* final_payment is base_revenue * revenue_percentage_applied * (1 - tax_rate_applied).
C10_TaxAndFinalPayment == \A x \in teacher_payments : x.tax_amount = RMul(x.calculated_revenue, x.tax_rate_applied) /\ x.final_payment = RSub(x.calculated_revenue, x.tax_amount) /\ x.final_payment = RMul(RMul(x.base_revenue, x.revenue_percentage_applied), RSub(ROne, x.tax_rate_applied))

\* A payment with a tax and a revenue percentage under 1.
C10_Witness == \E x \in teacher_payments : x.tax_amount # RZero /\ x.revenue_percentage_applied = Rat(1, 2) /\ x.tax_rate_applied = Rat(1, 10)

\* The payments a run generated for a section.
Generated(r, sec) == {run[r].payments_created[k] : k \in {j \in DOMAIN run[r].payments_created : run[r].payments_created[j].section_id = sec}}

\* C11: every generated payment has watch_time_percentage in [0,1]; in a
\* section whose pool is 0 every assignment of the section still gets its
\* payment, with percentage 0, and the run goes on to its commit.
C11_WatchPctInUnitInterval == (\A x \in teacher_payments : RLe(RZero, x.watch_time_percentage) /\ RLe(x.watch_time_percentage, ROne)) /\ (\A r \in Calculating : run[r].res # "500" /\ \A i \in DOMAIN run[r].pools : run[r].pools[i][2] = 0 => \A a \in PaidIn(run[r].stage_id, run[r].pools[i][1]) : \E x \in Generated(r, run[r].pools[i][1]) : x.assignment_id = a.id /\ x.watch_time_percentage = RZero)

\* A run committed payments of a section whose pool was 0, beside a
\* section with a positive pool.
C11_Witness == \E r \in Workers : run[r].pc = "committed" /\ \E i, j \in DOMAIN run[r].pools : run[r].pools[i][2] = 0 /\ run[r].pools[j][2] > 0 /\ \E x, y \in teacher_payments : x.id \in run[r].own /\ y.id \in run[r].own /\ x.section_id = run[r].pools[i][1] /\ y.section_id = run[r].pools[j][1] /\ x.watch_time_percentage = RZero /\ y.watch_time_percentage # RZero

RECURSIVE SumPct(_)
SumPct(S) == IF S = {} THEN RZero ELSE LET x == CHOOSE y \in S : TRUE IN RAdd(x.watch_time_percentage, SumPct(S \ {x}))

\* C12: in every run, the watch_time_percentage values of the payments
\* generated for a section whose pool is greater than 0 sum to at most 1.
C12_SectionPctSumAtMostOne == \A r \in Calculating : \A i \in DOMAIN run[r].pools : run[r].pools[i][2] > 0 => RLe(SumPct(Generated(r, run[r].pools[i][1])), ROne)

\* A section with a positive pool shared by two teachers with positive
\* watch time.
C12_Witness == \E r \in Calculating : \E i \in DOMAIN run[r].pools : run[r].pools[i][2] > 0 /\ \E x, y \in Generated(r, run[r].pools[i][1]) : x.assignment_id # y.assignment_id /\ x.watch_time_percentage # RZero /\ y.watch_time_percentage # RZero

\* The months a period covers, as the specification's FinancialPeriod
\* declares them (period 1 is January 2024, period 2 January 2025); the
\* financial_periods table of the code holds a year and no months.
DeclaredMonths(p) == {1}

\* C13: the watch time a run uses for a library is the sum of the
\* library's stat rows of the period's year over the months the period
\* declares; a row of another month of that year contributes nothing.
C13_DeclaredMonthsOnly == \A r \in Calculating : \A lib \in DOMAIN run[r].watch_time_map : run[r].watch_time_map[lib] = SumWatchTime({h \in historical_stats : h.library_id = lib /\ h.year = period_year[run[r].period_id] /\ h.month \in DeclaredMonths(run[r].period_id)})

\* C14 as stated: the stored payments hold at most one row per period and
\* assignment.
C14_OneRowPerPeriodAssignment == \A x, y \in teacher_payments : (x.period_id = y.period_id /\ x.assignment_id = y.assignment_id) => x.id = y.id

\* C14 as amended: among the payments a run generates there is exactly
\* one row for each section with revenue and each assignment of the stage
\* whose section is that section or NULL, and no row for any other
\* assignment; so an assignment without section has one row per section.
C14_OneRowPerAssignmentSection == \A r \in Calculating : \A i \in DOMAIN run[r].pools : \A a \in teacher_assignments : Cardinality({k \in DOMAIN run[r].payments_created : run[r].payments_created[k].section_id = run[r].pools[i][1] /\ run[r].payments_created[k].assignment_id = a.id}) = (IF a \in PaidIn(run[r].stage_id, run[r].pools[i][1]) THEN 1 ELSE 0)

\* An assignment without section has a stored row in each of two sections
\* of one period, beside a section assignment with a single row.
C14_Witness == \E x, y, z \in teacher_payments : x.period_id = y.period_id /\ x.assignment_id = y.assignment_id /\ x.section_id # y.section_id /\ z.assignment_id # x.assignment_id /\ \A u \in teacher_payments : u.assignment_id = z.assignment_id => u = z

\* The runs that hold the order shares of their (period, stage).
Loaded == {r \in Workers : run[r].pc \in {"deleting", "deleted", "mapped", "committed"}}

RECURSIVE SumShares(_, _)
SumShares(f, S) == IF S = {} THEN RZero ELSE LET s == CHOOSE y \in S : TRUE IN RAdd(f[s], SumShares(f, S \ {s}))

\* C15: for a non-empty list of sections with distinct ids and
\* non-negative order counts, calculate_section_order_percentages returns
\* one fraction per section, the fractions sum to 1, and with a positive
\* total the fraction of a section is its orders over the total.
C15_SharesSumToOne == \A r \in Loaded : LET revs == PairRevenues(run[r].period_id, run[r].stage_id) pcts == run[r].section_order_percentages IN DOMAIN pcts = {v.section_id : v \in revs} /\ SumShares(pcts, DOMAIN pcts) = ROne /\ (SumOrders(revs) > 0 => \A v \in revs : pcts[v.section_id] = Rat(v.total_orders, SumOrders(revs)))

\* Three sections with orders 1, 2 and 5: shares 1/8, 1/4 and 5/8.
C15_Witness == \E r \in Loaded : LET pcts == run[r].section_order_percentages IN DOMAIN pcts = {1, 2, 4} /\ pcts[1] = Rat(1, 8) /\ pcts[2] = Rat(1, 4) /\ pcts[4] = Rat(5, 8)

\* C16: when the orders of the n sections of a (period, stage) total 0,
\* every section gets the share 1/n, the run ends with its payments
\* committed, and the payments of a common subject carry the share 1/n.
C16_ZeroOrdersEqualShares == (\A r \in Loaded : LET revs == PairRevenues(run[r].period_id, run[r].stage_id) IN SumOrders(revs) = 0 => \A v \in revs : run[r].section_order_percentages[v.section_id] = Rat(1, Cardinality(revs))) /\ (\A r \in Workers : (run[r].pc = "done" /\ SumOrders(PairRevenues(request.period_id, request.stage_id)) = 0) => (run[r].res = "ok" /\ run[r].committed)) /\ (\A x \in CommonPayments : SumOrders(PairRevenues(x.period_id, x.stage_id)) = 0 => x.section_order_percentage = Rat(1, Cardinality(PairRevenues(x.period_id, x.stage_id))))

\* A run over three sections without orders ended with three payments of
\* share 1/3 stored.
C16_Witness == \E r \in Workers : run[r].pc = "done" /\ run[r].res = "ok" /\ Cardinality(PairRevenues(1, 1)) = 3 /\ SumOrders(PairRevenues(1, 1)) = 0 /\ Cardinality({x \in CommonPayments : x.section_order_percentage = Rat(1, 3) /\ x.base_revenue = Rat(100, 3)}) = 3

SubjectIds == {j.id : j \in subjects}

\* C17 as stated: an assignment whose subject is not found, or a section
\* that is not found, has no payment row.
C17_FailedLookupSkipped == \A x \in teacher_payments : x.subject_id \in SubjectIds /\ x.section_id \in Sections

\* C17 as amended: a failed subject or section lookup skips nothing: in
\* every section with revenue, found or not, each assignment of the
\* section gets its payment, an assignment whose subject is not found
\* being paid as a non-common one (section_order_percentage 1); and the
\* run ends with its payments committed.
C17_FailedLookupStillPaid == (\A r \in Calculating : \A i \in DOMAIN run[r].pools : \A a \in PaidIn(run[r].stage_id, run[r].pools[i][1]) : \E x \in Generated(r, run[r].pools[i][1]) : x.assignment_id = a.id /\ x.subject_id = a.subject_id /\ (a.subject_id \notin SubjectIds => (x.section_order_percentage = ROne /\ x.base_revenue = RMul(RevenueOf(x).total_revenue_egp, x.watch_time_percentage)))) /\ (\A r \in Workers : run[r].pc = "done" => (run[r].res = "ok" /\ run[r].committed))

\* A run ended with a paid row of an assignment whose subject is not
\* found, in a section that is not found, beside a row of the other
\* assignment.
C17_Witness == \E r \in Workers : run[r].pc = "done" /\ run[r].res = "ok" /\ \E x, y \in teacher_payments : x.subject_id \notin SubjectIds /\ x.section_id \notin Sections /\ x.final_payment # RZero /\ y.section_id = x.section_id /\ y.subject_id \in SubjectIds /\ y.final_payment # RZero

\* The common-subject assignments of a run's stage that name a section
\* without a SectionRevenue row in the run's (period, stage).
Unfunded(r) == {a \in teacher_assignments : a.stage_id = run[r].stage_id /\ IsCommon(subjects, a.subject_id) /\ a.section_id # NullSection /\ a.section_id \notin {v.section_id : v \in PairRevenues(run[r].period_id, run[r].stage_id)}}

RECURSIVE SumPaidWatchTime(_)
SumPaidWatchTime(S) == IF S = {} THEN 0 ELSE LET x == CHOOSE y \in S : TRUE IN x.total_watch_time_seconds + SumPaidWatchTime(S \ {x})

\* C18: a common-subject assignment whose section is not NULL and has no
\* SectionRevenue row in the (period, stage) gets no payment in the run,
\* and the pool of every section is the watch time of the assignments
\* paid in it, so the assignment is in no pool.
C18_UnfundedSectionSkipped == \A r \in Calculating : (\A a \in Unfunded(r) : \A k \in DOMAIN run[r].payments_created : run[r].payments_created[k].assignment_id # a.id) /\ (\A i \in DOMAIN run[r].pools : run[r].pools[i][2] = SumPaidWatchTime(Generated(r, run[r].pools[i][1])))

\* A run committed payments while a common-subject assignment with watch
\* time names a section without revenue; none of the stored rows is its.
C18_Witness == \E r \in Workers : run[r].pc = "committed" /\ run[r].own # {} /\ \E a \in Unfunded(r) : run[r].watch_time_map[a.library_id] > 0 /\ \A x \in teacher_payments : x.assignment_id # a.id

\* The stored payments of the assignment and period of a payment.
RowsOfTeacher(x) == {y \in teacher_payments : y.period_id = x.period_id /\ y.stage_id = x.stage_id /\ y.assignment_id = x.assignment_id}

RECURSIVE SumFinal(_)
SumFinal(S) == IF S = {} THEN RZero ELSE LET x == CHOOSE y \in S : TRUE IN RAdd(x.final_payment, SumFinal(S \ {x}))

\* The final payment of a row if the order share of its section were 1.
FullShareFinal(x) == RMul(RMul(RMul(RevenueOf(x).total_revenue_egp, x.watch_time_percentage), x.revenue_percentage_applied), RSub(ROne, x.tax_rate_applied))

\* C19 as stated: the final payments of a common-subject teacher over the
\* sections of a run sum to no more than the final payment the teacher
\* would get in a single section, whichever it is, at order share 1.
C19_SumWithinAnySingleSection == \A x \in CommonPayments : RLe(SumFinal(RowsOfTeacher(x)), FullShareFinal(x))

\* C19 as amended: the sum is no more than the largest of the final
\* payments the teacher would get in one of the sections at order share 1.
C19_SumWithinBestSingleSection == \A x \in CommonPayments : \E y \in RowsOfTeacher(x) : RLe(SumFinal(RowsOfTeacher(x)), FullShareFinal(y)) /\ \A z \in RowsOfTeacher(x) : RLe(FullShareFinal(z), FullShareFinal(y))

\* A common-subject teacher paid in two sections, more in one than in
\* the other would give at order share 1.
C19_Witness == \E x, y \in CommonPayments : y \in RowsOfTeacher(x) /\ x.section_id # y.section_id /\ x.final_payment # RZero /\ y.final_payment # RZero /\ ~RLe(SumFinal(RowsOfTeacher(x)), FullShareFinal(x)) /\ RLe(SumFinal(RowsOfTeacher(x)), FullShareFinal(y))

\* C20: no two stored assignments have the same library, stage, subject
\* and section.
C20_AssignmentKeyUnique == \A a, b \in teacher_assignments : (a.library_id = b.library_id /\ a.stage_id = b.stage_id /\ a.subject_id = b.subject_id /\ a.section_id = b.section_id) => a.id = b.id

\* C21: every assignment auto_match_teachers creates without section has a
\* common subject, or its stage has no sections.
C21_NullSectionOnlyCommon == \A a \in teacher_assignments : a.section_id = NullSection => ((\E j \in subjects : j.id = a.subject_id /\ j.is_common) \/ {c \in Sections : section_stage[c] = a.stage_id} = {})

\* C22: after any sequence of create_or_update_section_revenue calls, one
\* after the other, the table holds at most one row per (period, stage,
\* section), with the order count and the revenue of the latest call for
\* that triple: a call leaves exactly its own values in the row of its
\* triple and leaves the rows of the other triples as they were.
RevenueKey(x) == <<x.period_id, x.stage_id, x.section_id>>
C22_OneRowLatestValues == [](\A x, y \in section_revenues : RevenueKey(x) = RevenueKey(y) => x = y) /\ [][n_edits' # n_edits => ({x \in section_revenues' : RevenueKey(x) = RevenueKey(last_revenue')} = {last_revenue'} /\ {x \in section_revenues' : RevenueKey(x) # RevenueKey(last_revenue')} = {x \in section_revenues : RevenueKey(x) # RevenueKey(last_revenue')})]_vars

\* Two calls for one triple have left one row, the one of the second call.
C22_Witness == n_edits = 2 /\ section_revenues = {last_revenue} /\ last_revenue.total_orders = 70 /\ last_revenue.total_revenue_egp = RInt(200)

\* The result entries of the latest response, and the codes of an entry.
Results == {response.results[i] : i \in DOMAIN response.results}
Parsed(e) == <<e.stage_code, e.section_code, e.subject_code>>

\* C23 as stated: a name <stage>-<commonCode>-... with a code of the common
\* set parses to (stage, null, commonCode), the code as written.
C23_CommonCodeAsGiven == \A e \in Results, k \in CommonCases : (e.library_name = k.name /\ k.stage \in StageLike /\ k.code \in COMMON_SUBJECT_CODES) => Parsed(e) = <<k.stage, None, k.code>>

\* C23: a name <stage>-<commonCode>-... with a code of the common set, in
\* either case, parses to the stage in upper case, no section, and the
\* canonical code: one of AR, EN, HX, SS, GEO, SOC.
C23_CommonCodeCanonical == \A e \in Results, k \in CommonCases : e.library_name = k.name => (Parsed(e) = <<Upper(k.stage), None, normalize_subject_code(k.code)>> /\ e.subject_code \in {"AR", "EN", "HX", "SS", "GEO", "SOC"})

\* An alias of the common set has been parsed: HX for HIST.
C23_Witness == \E e \in Results : e.library_name = <<"S1", "-", "HIST", "-", "P0046">> /\ Parsed(e) = <<"S1", None, "HX">>

\* C24 as stated: a name <stage>-<subjectCode>-<AR|EN>-... with a
\* section-specific code, after a qualifier or a bare OLD or none, parses
\* to the stage, GEN for AR and LANG for EN, and the code as written.
C24_SectionSubjectAsGiven == \A e \in Results, k \in SectionCases : (e.library_name = k.name /\ k.code \in SECTION_SUBJECT_CODES) => Parsed(e) = <<"S1", IF k.indicator = "AR" THEN "GEN" ELSE "LANG", k.code>>

\* C24: such a name parses to the stage, GEN for AR and LANG for EN, and
\* the canonical code of the subject: CH for CHEM and CHEMISTRY, BIO for
\* BIOLOGY, PHYS for PHYSICS, MATH for MATHEMATICS, the others as written.
C24_SectionSubjectCanonical == \A e \in Results, k \in SectionCases : e.library_name = k.name => (Parsed(e) = <<"S1", IF k.indicator = "AR" THEN "GEN" ELSE "LANG", normalize_subject_code(k.code)>> /\ e.subject_code \in {"ISC", "BIO", "CH", "PHYS", "MATH", "PURE", "APPLIED"})

\* The example of the claim has been parsed, and an alias after a bare OLD.
C24_Witness == \E e \in Results : (e.library_name = <<"(", "OLD", ")", "S1", "-", "MATH", "-", "EN", "-", "-", "Name">> /\ Parsed(e) = <<"S1", "LANG", "MATH">>) \/ (e.library_name = <<"OLD", " ", "S1", "-", "CHEM", "-", "AR", "-", "-", "Name">> /\ Parsed(e) = <<"S1", "GEN", "CH">>)

\* C25: parse_library_name returns a result for every name: (null, null,
\* null) when fewer than 2 non-empty tokens are left after the prefixes are
\* stripped or the first token is no letter followed by digits, and a
\* result with a stage otherwise.
C25_AllNullOrStage == \A e \in Results : LET parts == Parts(StripOld(StripQualifier(Strip(e.library_name)))) IN IF Len(parts) < 2 \/ parts[1] \notin StageLike THEN Parsed(e) = <<None, None, None>> ELSE e.stage_code = parts[1] /\ e.stage_code # None

\* A name of two tokens whose first token is no stage has been parsed.
C25_Witness == \E e \in Results : e.library_name = <<"Intro", "-", "AR">> /\ Parsed(e) = <<None, None, None>>

\* C30: in every result of parse_library_name a section is GEN or LANG and
\* comes with a subject outside the common set; a result without stage is
\* all null; and the subject is canonical: normalize_subject_code leaves
\* it as it is, and it is no key of the alias table.
C30_ResultWellFormed == \A e \in Results : /\ (e.section_code # None => (e.section_code \in {"GEN", "LANG"} /\ e.subject_code # None /\ e.subject_code \notin COMMON_SUBJECT_CODES))
                                           /\ (e.stage_code = None => Parsed(e) = <<None, None, None>>)
                                           /\ (e.subject_code # None => (normalize_subject_code(e.subject_code) = e.subject_code /\ e.subject_code \notin DOMAIN SUBJECT_CODE_ALIASES))

\* An alias with a section indicator has been parsed to its canonical code.
C30_Witness == \E e \in Results : e.library_name = <<"S1", "-", " ", "-", "CHEMISTRY", "-", "-", "-", "EN">> /\ Parsed(e) = <<"S1", "LANG", "CH">>

\* The watch time of the assignments of a run that map to a section, from
\* the run's watch_time_map.
MappedWatchTime(r, sec) == SumSeq([i \in DOMAIN run[r].assignments |-> IF run[r].assignments[i].section_id \in {sec, NullSection} THEN run[r].watch_time_map[run[r].assignments[i].library_id] ELSE 0])

\* C26 as stated: a run computes no payment before the pools of all its
\* sections are complete.
C26_AllPoolsBeforeAnyPayment == \A r \in Workers : run[r].payments_created # << >> => Len(run[r].pools) = Len(run[r].section_revenues)

\* C26: a run computes no payment before the watch time of all its
\* assignments is aggregated, and no payment of a section before the pool
\* of that section is complete; the pool the payment uses holds the watch
\* time of every assignment mapped to the section.
C26_PoolBeforeItsPayments == \A r \in Workers : \A k \in DOMAIN run[r].payments_created : LET x == run[r].payments_created[k] IN
    /\ DOMAIN run[r].watch_time_map = {run[r].assignments[i].library_id : i \in DOMAIN run[r].assignments}
    /\ \E i \in DOMAIN run[r].pools : run[r].pools[i] = <<x.section_id, MappedWatchTime(r, x.section_id)>>
    /\ x.watch_time_percentage = (IF MappedWatchTime(r, x.section_id) = 0 THEN RZero ELSE Rat(x.total_watch_time_seconds, MappedWatchTime(r, x.section_id)))

\* The payments of the first section are computed, with a share of its
\* pool, and the pool of the second section is not.
C26_Witness == \E r \in Workers : run[r].pc = "mapped" /\ Len(run[r].pools) = 1 /\ Len(run[r].section_revenues) = 2 /\ \E k \in DOMAIN run[r].payments_created : run[r].payments_created[k].watch_time_percentage \notin {RZero, ROne}

\* The libraries of the model that cannot be matched: the name of 4 does
\* not parse, 6 names a section its stage does not have, 7 a stage and 8 a
\* subject without row.
Unmatchable == {4, 6, 7, 8}

\* C27: the response of auto_match_teachers has one result per library of
\* the list, in its order; the libraries that cannot be parsed or matched
\* have matched = false and get no assignment, the others are matched
\* wherever they stand in the list; matched + unmatched is the number of
\* libraries.
C27_OneResultPerLibrary ==
    /\ \E libraries \in LibraryLists : Len(libraries) = response.total_libraries /\ DOMAIN response.results = DOMAIN libraries /\ \A i \in DOMAIN libraries : response.results[i].library_id = libraries[i].id /\ response.results[i].library_name = libraries[i].name
    /\ response.matched + response.unmatched = response.total_libraries
    /\ response.unmatched = Cardinality({i \in DOMAIN response.results : ~response.results[i].matched})
    /\ \A e \in Results : (e.library_id \in Unmatchable <=> ~e.matched) /\ (e.matched <=> e.message \in {"Successfully matched", "Already assigned"}) /\ (e.matched => \E a \in teacher_assignments : a.library_id = e.library_id)
    /\ \A a \in teacher_assignments : a.library_id \notin Unmatchable

\* A library is matched after one that cannot be parsed.
C27_Witness == response.total_libraries = 2 /\ response.results[1].message = "Could not parse library name" /\ response.results[2].message = "Successfully matched" /\ response.unmatched = 1 /\ \E a \in teacher_assignments : a.library_id = response.results[2].library_id

\* The sum of base_revenue over a set of payments.
RECURSIVE SumBase(_)
SumBase(S) == IF S = {} THEN RZero ELSE LET x == CHOOSE y \in S : TRUE IN RAdd(x.base_revenue, SumBase(S \ {x}))

\* C28: in every run the base_revenue of the payments generated for a
\* section sum to at most the total_revenue_egp of the section, and every
\* payment has 0 <= final_payment <= calculated_revenue <= base_revenue.
C28_SectionNeverOverpaid ==
    /\ \A r \in Calculating : \A i \in DOMAIN run[r].pools : run[r].section_revenues[i].section_id = run[r].pools[i][1] /\ RLe(SumBase(Generated(r, run[r].pools[i][1])), run[r].section_revenues[i].total_revenue_egp)
    /\ \A r \in Calculating : \A k \in DOMAIN run[r].payments_created : LET x == run[r].payments_created[k] IN RLe(RZero, x.final_payment) /\ RLe(x.final_payment, x.calculated_revenue) /\ RLe(x.calculated_revenue, x.base_revenue)
    /\ \A x \in teacher_payments : RLe(RZero, x.final_payment) /\ RLe(x.final_payment, x.calculated_revenue) /\ RLe(x.calculated_revenue, x.base_revenue)

\* Two teachers share the whole revenue of a section, one of them taxed
\* and at a rate below 1.
C28_Witness == \E r \in Workers : run[r].pc = "committed" /\ \E i \in DOMAIN run[r].pools : SumBase(Generated(r, run[r].pools[i][1])) = run[r].section_revenues[i].total_revenue_egp /\ \E x, y \in Generated(r, run[r].pools[i][1]) : x.base_revenue # RZero /\ y.base_revenue # RZero /\ x.final_payment # x.calculated_revenue /\ x.calculated_revenue # x.base_revenue /\ x.assignment_id # y.assignment_id

\* The libraries of a response, in the order of its results.
ListOf(resp) == [i \in DOMAIN resp.results |-> <<resp.results[i].library_id, resp.results[i].library_name>>]

\* C29: an auto_match_teachers request for the list of the request before
\* it creates no assignment: the table stays as it is and every library
\* the first response reports matched is reported "Already assigned".
C29_SecondRunCreatesNothing == [][(n_edits' = n_edits + 1 /\ response.total_libraries > 0 /\ ListOf(response') = ListOf(response)) => (teacher_assignments' = teacher_assignments /\ \A i \in DOMAIN response.results : (response.results[i].matched => (response'.results[i].matched /\ response'.results[i].message = "Already assigned")) /\ (~response.results[i].matched => response'.results[i] = response.results[i]))]_vars

\* The second run of a list whose first run created an assignment.
C29_Witness == n_edits = 2 /\ response.total_libraries = 2 /\ response.matched = 1 /\ Cardinality(teacher_assignments) = 1 /\ \A e \in Results : e.matched => e.message = "Already assigned"

====
